---- MODULE Spec2Model ----
(***************************************************************************)
(* Model of neo/rawio/spike2rawio.py (Spike2RawIO): the block index, the   *)
(* gap based segmentation, the stream grouping, the chunked signal reader  *)
(* and the spike/event extractor.                                          *)
(*                                                                         *)
(* Conventions.  Sequences are 1-based: a channel id, a block index, a     *)
(* segment index, a stream index or a unit index of the model is the       *)
(* source's index plus one.  Sample numbers (i_start, i_stop, cumsum) and  *)
(* ticks are quantities and keep the source's values.  The file is a       *)
(* version >= 6 file (system_id >= 6), so get_sample_interval takes its    *)
(* second branch and the sample interval in ticks is l_chan_dvd.  Times    *)
(* are counted in units of dtime_base seconds, so that the time factor     *)
(* us_per_time * dtime_base is the integer us_per_time.  The "pos" column  *)
(* of a block index holds the place of the block's payload in the file:    *)
(* the block's position in its channel's chain.                            *)
(***************************************************************************)
EXTENDS Integers, Sequences, FiniteSets, TLC

\* ------------------------------------------------------------------ bounds
\* largest number of data blocks of a channel
MaxBlocks == 3
\* largest item count of a data block
MaxItems == 2
\* largest distance in ticks from the end of a block to the start of the next
MaxDelta == 2
\* largest sampling divisor (l_chan_dvd) of a channel
MaxDvd == 2
\* largest tick of a spike or event entry
MaxTick == 2
\* largest number of entries of a spike or event channel
MaxEntries == 3
\* largest t_start / t_stop argument of an extraction call
MaxTime == 3

\* -------------------------------------------------------------- constants
\* python None
NoneVal == 0 - 1
\* the unit id "all" of a channel read without unit discrimination
AllUnit == 0 - 2
\* us_per_time of the file header
UsPerTime == 2
\* gain of a kind 1 channel is scale / 6553.6; gains are counted in 1/65536
GainOne == 65536
AnalogKinds == {1, 9}
EventKinds == {2, 3, 4, 5, 8}
SpikeKinds == {6, 7}

\* ---------------------------------------------------------------- helpers
RECURSIVE SumSeq(_)
SumSeq(s) == IF s = <<>> THEN 0 ELSE Head(s) + SumSeq(Tail(s))

RECURSIVE Flatten(_)
Flatten(ss) == IF ss = <<>> THEN <<>> ELSE Head(ss) \o Flatten(Tail(ss))

Range(s) == {s[i] : i \in DOMAIN s}

Min(S) == CHOOSE x \in S : \A y \in S : x <= y
Max(S) == CHOOSE x \in S : \A y \in S : x >= y

\* the elements of a finite set of integers, ascending (sorted(list(set)))
RECURSIVE SortedSeq(_)
SortedSeq(S) == IF S = {} THEN <<>> ELSE <<Min(S)>> \o SortedSeq(S \ {Min(S)})

Sizes(blocks) == [b \in DOMAIN blocks |-> blocks[b].size]

\* np.cumsum
CumSum(s) == [i \in DOMAIN s |-> SumSeq(SubSeq(s, 1, i))]

\* ------------------------------------------------------ the file (input)
\* An analog chain of channel c from its shape, a sequence of <<items, delta>>:
\* the first block starts at tick delta - 1, a later one delta ticks after the
\* end of its predecessor; the samples of a block are distinct and non-zero.
RECURSIVE MkAnalogBlocks(_, _, _, _)
MkAnalogBlocks(c, shape, b, t) ==
    IF b > Len(shape) THEN <<>>
    ELSE LET st == IF b = 1 THEN shape[b][2] - 1 ELSE t + shape[b][2]
             en == st + shape[b][1]
         IN  <<[items |-> shape[b][1], start_time |-> st, end_time |-> en,
                data |-> [i \in 1..shape[b][1] |-> 100 * c + 10 * b + i]]>>
             \o MkAnalogBlocks(c, shape, b + 1, en)

MkAnalogChan(c, kind, dvd, shape) ==
    [kind |-> kind, l_chan_dvd |-> dvd, scale |-> 1, offset |-> 0, unit |-> 0,
     blocks |-> MkAnalogBlocks(c, shape, 1, 0)]

\* A spike or event chain from its blocks of <<tick, marker>> entries; the
\* header of a block holds its first and last tick.
MkEntryBlocks(ents) ==
    [b \in DOMAIN ents |->
        [items |-> Len(ents[b]),
         start_time |-> ents[b][1][1],
         end_time |-> ents[b][Len(ents[b])][1],
         data |-> [i \in DOMAIN ents[b] |->
                     [tick |-> ents[b][i][1], marker |-> ents[b][i][2],
                      waveform |-> 10 * b + i, label |-> 10 * b + i]]]]

MkEntryChan(kind, ents) ==
    [kind |-> kind, l_chan_dvd |-> 1, scale |-> 1, offset |-> 0, unit |-> 0,
     blocks |-> MkEntryBlocks(ents)]

\* shapes of n analog blocks with item counts in items; the first block
\* starts at tick 0
Shapes(n, items) ==
    {s \in [1..n -> items \X (1..MaxDelta)] : n = 0 \/ s[1][2] = 1}

\* the same with a first block starting at tick 0 or 1
DriftShapes(n, items) == [1..n -> items \X (1..MaxDelta)]

\* the chains of at most nb blocks and at most MaxEntries entries, over the
\* markers mk
EntryChains(nb, mk) ==
    LET Entry  == (0..MaxTick) \X mk
        Block  == UNION {[1..k -> Entry] : k \in 1..MaxItems}
        Chains == UNION {[1..n -> Block] : n \in 0..nb}
    IN  {ch \in Chains : SumSeq([b \in DOMAIN ch |-> Len(ch[b])]) <= MaxEntries}

\* s cut into consecutive pieces of the lengths sz
RECURSIVE Split(_, _)
Split(s, sz) ==
    IF sz = <<>> THEN <<>>
    ELSE <<SubSeq(s, 1, Head(sz))>>
         \o Split(SubSeq(s, Head(sz) + 1, Len(s)), Tail(sz))

\* the marker words of the entries of a waveform channel whose marker bytes
\* are 0, 1, 1, 2: the byte is the low byte of a 32 bit word
UnitMarkers == {<<0, 1, 1, 2>>, <<0, 1, 256 + 1, 2>>}

\* the chains of such a channel: ticks non-decreasing along the chain, blocks
\* of at most MaxItems entries, at most MaxBlocks blocks
UnitChains ==
    {Split([i \in DOMAIN m |-> <<t[i], m[i]>>], sz) :
        m \in UnitMarkers,
        t \in {u \in [1..4 -> 0..MaxTick] : \A i \in 1..3 : u[i] <= u[i + 1]},
        sz \in {z \in UNION {[1..n -> 1..MaxItems] : n \in 1..MaxBlocks} :
                   SumSeq(z) = 4}}

\* ------------------------------------------------- time and sampling rate
\* self._time_factor = us_per_time * dtime_base, in units of dtime_base
TimeFactor(f) == f.us_per_time

\* get_sample_interval for system_id >= 6, in units of dtime_base
get_sample_interval(f, chan) == chan.l_chan_dvd * f.us_per_time

\* interval = int(np.round(get_sample_interval / time_factor)); the quotient
\* is exact here, a half rounds up otherwise
Interval(f, chan) ==
    (2 * get_sample_interval(f, chan) + TimeFactor(f)) \div (2 * TimeFactor(f))

\* -------------------------------------------------------- the block index
\* one channel's index in chain order, the cumsum column still 0
BlockIndex(chan) ==
    [b \in DOMAIN chan.blocks |->
        [pos |-> b, size |-> chan.blocks[b].items, cumsum |-> 0,
         start_time |-> chan.blocks[b].start_time,
         end_time |-> chan.blocks[b].end_time]]

AllDataBlocks0(f) == [c \in DOMAIN f.chans |-> BlockIndex(f.chans[c])]

\* self._memmap[ind0:ind1].view(dt): the payload of the block at pos
Payload(f, c, pos) == f.chans[c].blocks[pos].data

\* ----------------------------------------------------------- segmentation
\* the channels that enter all_gaps_block_ind, in dict (insertion) order
IsQualifying(f, c) ==
    /\ f.chans[c].kind \in AnalogKinds
    /\ SumSeq(Sizes(BlockIndex(f.chans[c]))) > 0

QualifyingChans(f) == SortedSeq({c \in DOMAIN f.chans : IsQualifying(f, c)})

\* np.nonzero(start_time[1:] - end_time[:-1] > interval): k is in the result
\* when there is a gap between block k and block k + 1
IsGap(prev, next, interval) == next.start_time - prev.end_time > interval

GapsBlockInd(blocks, interval) ==
    SortedSeq({k \in 1..(Len(blocks) - 1) :
                  IsGap(blocks[k], blocks[k + 1], interval)})

AllGapsBlockInd(f) ==
    [c \in Range(QualifyingChans(f)) |->
        GapsBlockInd(BlockIndex(f.chans[c]), Interval(f, f.chans[c]))]

\* all_nb_seg, in dict order
AllNbSeg(f) ==
    LET q == QualifyingChans(f)
    IN  [i \in DOMAIN q |-> Len(AllGapsBlockInd(f)[q[i]]) + 1]

\* np.all(all_nb_seg[0] != all_nb_seg)
PausesDiffer(all_nb_seg) ==
    \A i \in DOMAIN all_nb_seg : all_nb_seg[1] # all_nb_seg[i]

\* FirstBl without the step over the block that ends the previous segment
FirstBlNoSkip(g, s) == IF s = 1 THEN 1 ELSE g[s - 1]

\* the first and last block of segment s of a channel with gaps g
FirstBl(g, s) == IF s = 1 THEN 1 ELSE g[s - 1] + 1
LastBl(g, s, nb_seg, size) == IF s < nb_seg THEN g[s] ELSE size

\* gaps_block_ind[seg_ind] raises IndexError when the channel has fewer gaps
\* than nb_segment - 1
SegIndexError(g, nb_seg) == Len(g) < nb_seg - 1

\* InSegDataBlock counting from the first block of the chain instead of the
\* first block of the segment
InSegDataBlockOfChain(blocks, first, last) ==
    LET seg == SubSeq(blocks, first, last)
        cs  == CumSum(Sizes(blocks))
    IN  [k \in DOMAIN seg |->
            [seg[k] EXCEPT !.cumsum = IF first + k - 1 = 1 THEN seg[k].cumsum
                                      ELSE cs[first + k - 2]]]

\* in_seg_data_block = data_blocks[fisrt_bl:last_bl + 1] with
\* in_seg_data_block["cumsum"][1:] = np.cumsum(in_seg_data_block["size"][:-1])
InSegDataBlock(blocks, first, last) ==
    LET seg == SubSeq(blocks, first, last)
        cs  == CumSum(Sizes(seg))
    IN  [k \in DOMAIN seg |->
            [seg[k] EXCEPT !.cumsum = IF k = 1 THEN seg[k].cumsum ELSE cs[k - 1]]]

BySegOfChan(blocks, g, nb_seg) ==
    [s \in 1..nb_seg |->
        InSegDataBlock(blocks, FirstBl(g, s), LastBl(g, s, nb_seg, Len(blocks)))]

\* EventTStop over the first blocks instead of the last ones
RECURSIVE EventTStopFirst(_, _, _)
EventTStopFirst(adb, c, t_stop) ==
    IF c > Len(adb) THEN t_stop
    ELSE IF Len(adb[c]) > 0 /\ (t_stop = NoneVal \/ adb[c][1].end_time > t_stop)
         THEN EventTStopFirst(adb, c + 1, adb[c][1].end_time)
         ELSE EventTStopFirst(adb, c + 1, t_stop)

\* the no-signal branch: the running maximum of the last block's end_time
\* over the channels that have blocks, None when there is none
RECURSIVE EventTStop(_, _, _)
EventTStop(adb, c, t_stop) ==
    IF c > Len(adb) THEN t_stop
    ELSE IF Len(adb[c]) > 0
            /\ (t_stop = NoneVal \/ adb[c][Len(adb[c])].end_time > t_stop)
         THEN EventTStop(adb, c + 1, adb[c][Len(adb[c])].end_time)
         ELSE EventTStop(adb, c + 1, t_stop)

\* the no-signal branch (lines 175-189): one segment from tick 0
NoSignalSegments(adb) ==
    [error |-> "", nb_segment |-> 1,
     all_data_blocks |-> adb,
     by_seg_data_blocks |-> [c \in DOMAIN adb |-> <<>>],
     sig_t_starts |-> <<>>, sig_t_stops |-> <<>>,
     seg_t_starts |-> <<0>>,
     seg_t_stops |-> <<EventTStop(adb, 1, NoneVal)>>]

\* self._by_seg_data_blocks: the per-segment lists of the qualifying channels
\* qs with gaps gp, nothing for the other channels
BySeg(adb, qs, gp, nb_seg) ==
    [c \in DOMAIN adb |->
        IF c \in qs THEN BySegOfChan(adb[c], gp[c], nb_seg) ELSE <<>>]

\* self._sig_t_starts and self._sig_t_stops
SigTStarts(byseg, qs, nb_seg) ==
    [c \in qs |-> [s \in 1..nb_seg |-> byseg[c][s][1].start_time]]

SigTStops(byseg, qs, nb_seg) ==
    [c \in qs |-> [s \in 1..nb_seg |-> byseg[c][s][Len(byseg[c][s])].end_time]]

\* lines 219-226: min of the starts, max of the stops
SegTStarts(sts, qs, nb_seg) == [s \in 1..nb_seg |-> Min({sts[c][s] : c \in qs})]

\* SegTStops taking the earliest stop instead of the latest
SegTStopsEarliest(sto, qs, nb_seg) ==
    [s \in 1..nb_seg |-> Min({sto[c][s] : c \in qs})]

SegTStops(sto, qs, nb_seg) == [s \in 1..nb_seg |-> Max({sto[c][s] : c \in qs})]

\* the tables of the signal branch.  The per-segment lists are views: the
\* cumsum column is written into the channel's index too.
SegmentTables(adb, qs, nb_seg, byseg) ==
    [error |-> "", nb_segment |-> nb_seg,
     all_data_blocks |->
         [c \in DOMAIN adb |-> IF c \in qs THEN Flatten(byseg[c]) ELSE adb[c]],
     by_seg_data_blocks |-> byseg,
     sig_t_starts |-> SigTStarts(byseg, qs, nb_seg),
     sig_t_stops |-> SigTStops(byseg, qs, nb_seg),
     seg_t_starts |-> SegTStarts(SigTStarts(byseg, qs, nb_seg), qs, nb_seg),
     seg_t_stops |-> SegTStops(SigTStops(byseg, qs, nb_seg), qs, nb_seg)]

\* the signal branch (lines 191-226) for the qualifying channels qs with gaps
\* gp and nb_seg segments
SignalSegments(adb, qs, gp, nb_seg) ==
    IF \E c \in qs : SegIndexError(gp[c], nb_seg)
    THEN [error |-> "IndexError"]
    ELSE SegmentTables(adb, qs, nb_seg, BySeg(adb, qs, gp, nb_seg))

\* lines 160-226: the segment count, the per-channel and global bounds and
\* the per-segment block lists; error is "" on success
Segmentation(f) ==
    IF Len(QualifyingChans(f)) = 0 THEN NoSignalSegments(AllDataBlocks0(f))
    ELSE IF PausesDiffer(AllNbSeg(f))
         THEN [error |-> "NeoReadWriteError: different pauses"]
         ELSE SignalSegments(AllDataBlocks0(f), Range(QualifyingChans(f)),
                             AllGapsBlockInd(f), AllNbSeg(f)[1])

\* ------------------------------------------------- typed channels, units
Dtype(chan) == IF chan.kind = 1 THEN "int16" ELSE "float32"

\* gain = scale / 6553.6 for int16, 1.0 for float32, in units of 1/65536
Gain(chan) == IF chan.kind = 1 THEN 10 * chan.scale ELSE GainOne

Offset(chan) == IF chan.kind = 1 THEN chan.offset ELSE 0

\* One row of signal_channels.  sampling_rate is 1.0 / sample_interval: the
\* row holds the sample interval, two rates are equal exactly when the
\* intervals are, and the larger rate has the smaller interval.
SignalChannelRow(f, c) ==
    [id |-> c, sample_interval |-> get_sample_interval(f, f.chans[c]),
     dtype |-> Dtype(f.chans[c]), units |-> f.chans[c].unit,
     gain |-> Gain(f.chans[c]), offset |-> Offset(f.chans[c]),
     stream_id |-> 1]

\* the analog channels listed: those that have segment bounds
ListedChans(f, sig_t_starts) ==
    SortedSeq({c \in DOMAIN f.chans :
                  f.chans[c].kind \in AnalogKinds /\ c \in DOMAIN sig_t_starts})

SignalChannels0(f, sig_t_starts) ==
    LET l == ListedChans(f, sig_t_starts)
    IN  [i \in DOMAIN l |-> SignalChannelRow(f, l[i])]

EventChannels(f) ==
    SortedSeq({c \in DOMAIN f.chans : f.chans[c].kind \in EventKinds})

\* Mask255 keeping the whole marker word
MarkerWord(m) == m

\* marker & 255
Mask255(m) == m % 256

\* the unit ids of a waveform channel: sorted distinct marker bytes over all
\* blocks, or the single unit "all"
UnitIds(chan, ced) ==
    IF ced
    THEN SortedSeq(UNION {{Mask255(chan.blocks[b].data[i].marker) :
                              i \in DOMAIN chan.blocks[b].data} :
                          b \in DOMAIN chan.blocks})
    ELSE <<AllUnit>>

\* self.internal_unit_ids: unit index -> (chan_id, unit_id), the waveform
\* channels in channel order
RECURSIVE InternalUnitIds(_, _, _)
InternalUnitIds(f, ced, c) ==
    IF c > Len(f.chans) THEN <<>>
    ELSE (IF f.chans[c].kind \in SpikeKinds
          THEN LET u == UnitIds(f.chans[c], ced)
               IN  [k \in DOMAIN u |-> <<c, u[k]>>]
          ELSE <<>>)
         \o InternalUnitIds(f, ced, c + 1)

\* -------------------------------------------------------- stream grouping
\* Characteristics without the sampling rate
CharacteristicsNoRate(row) == <<0, row.dtype, row.units, row.gain, row.offset>>

Characteristics(row) ==
    <<row.sample_interval, row.dtype, row.units, row.gain, row.offset>>

\* the order np.unique sorts the characteristics in: by sampling rate, then
\* dtype ("float32" < "int16"), units, gain, offset
DtypeRank(d) == IF d = "float32" THEN 0 ELSE 1

CharLess(a, b) ==
    LET ka == <<0 - a[1], DtypeRank(a[2]), a[3], a[4], a[5]>>
        kb == <<0 - b[1], DtypeRank(b[2]), b[3], b[4], b[5]>>
    IN  \E i \in 1..5 : ka[i] < kb[i] /\ \A j \in 1..(i - 1) : ka[j] = kb[j]

RECURSIVE SortChars(_)
SortChars(S) ==
    IF S = {} THEN <<>>
    ELSE LET m == CHOOSE x \in S : \A y \in S \ {x} : CharLess(x, y)
         IN  <<m>> \o SortChars(S \ {m})

UniqueCharacteristics(rows) ==
    SortChars({Characteristics(rows[i]) : i \in DOMAIN rows})

\* chan_grp_indexes of a characteristic
ChanGrpIndexes(rows, charact) ==
    SortedSeq({i \in DOMAIN rows : Characteristics(rows[i]) = charact})

\* np.all(sig_sizes != sig_sizes[0])
SizesDiffer(sig_sizes) ==
    \A i \in DOMAIN sig_sizes : sig_sizes[i] # sig_sizes[1]

SegSize(by_seg, c, s) == SumSeq(Sizes(by_seg[c][s]))

\* the size check of the grouped mode raises for this stream
GroupSizeError(rows, charact, by_seg, nb_seg) ==
    LET grp == ChanGrpIndexes(rows, charact)
    IN  \E s \in 1..nb_seg :
            SizesDiffer([k \in DOMAIN grp |-> SegSize(by_seg, rows[grp[k]].id, s)])

\* the index in uc of the characteristics of a row: its stream id
StreamIdOf(row, uc) == CHOOSE k \in DOMAIN uc : uc[k] = Characteristics(row)

\* lines 310-335: one stream per distinct characteristic uc[k]
GroupedStreams(rows, uc, by_seg, nb_seg) ==
    IF \E k \in DOMAIN uc : GroupSizeError(rows, uc[k], by_seg, nb_seg)
    THEN [error |-> "NeoReadWriteError: use try_signal_grouping=False"]
    ELSE [error |-> "",
          signal_channels |->
              [i \in DOMAIN rows |->
                  [rows[i] EXCEPT !.stream_id = StreamIdOf(rows[i], uc)]],
          signal_streams |-> [k \in DOMAIN uc |-> [id |-> k]],
          sig_dtypes |-> [k \in DOMAIN uc |-> uc[k][2]]]

\* UngroupedStreams leaving the stream id of the rows as it was set in the
\* channel loop
UngroupedStreamsKeepId(rows) ==
    [error |-> "",
     signal_channels |-> rows,
     signal_streams |-> [i \in DOMAIN rows |-> [id |-> i]],
     sig_dtypes |-> [i \in DOMAIN rows |-> rows[i].dtype]]

\* lines 337-344: one stream per channel
UngroupedStreams(rows) ==
    [error |-> "",
     signal_channels |-> [i \in DOMAIN rows |-> [rows[i] EXCEPT !.stream_id = i]],
     signal_streams |-> [i \in DOMAIN rows |-> [id |-> i]],
     sig_dtypes |-> [i \in DOMAIN rows |-> rows[i].dtype]]

\* lines 306-346: stream ids, streams and stream dtypes
Grouping(rows, grouping, by_seg, nb_seg) ==
    IF Len(rows) = 0
    THEN [error |-> "", signal_channels |-> rows, signal_streams |-> <<>>,
          sig_dtypes |-> <<>>]
    ELSE IF grouping
         THEN GroupedStreams(rows, UniqueCharacteristics(rows), by_seg, nb_seg)
         ELSE UngroupedStreams(rows)

\* ------------------------------------------------------------ _parse_header
\* the header tables from the segmentation sg and the grouping gr
HeaderTables(f, ced, sg, gr) ==
    IF gr.error # "" THEN [error |-> gr.error]
    ELSE [error |-> "",
          nb_segment |-> sg.nb_segment,
          all_data_blocks |-> sg.all_data_blocks,
          by_seg_data_blocks |-> sg.by_seg_data_blocks,
          sig_t_starts |-> sg.sig_t_starts,
          sig_t_stops |-> sg.sig_t_stops,
          seg_t_starts |-> sg.seg_t_starts,
          seg_t_stops |-> sg.seg_t_stops,
          internal_unit_ids |-> InternalUnitIds(f, ced, 1),
          signal_channels |-> gr.signal_channels,
          signal_streams |-> gr.signal_streams,
          sig_dtypes |-> gr.sig_dtypes,
          event_channels |-> EventChannels(f)]

\* lines 228-356 after the segmentation sg
TypedChannels(f, ced, grouping, sg) ==
    IF sg.error # "" THEN [error |-> sg.error]
    ELSE HeaderTables(f, ced, sg,
                      Grouping(SignalChannels0(f, sg.sig_t_starts), grouping,
                               sg.by_seg_data_blocks, sg.nb_segment))

parse_header(f, ced, grouping) == TypedChannels(f, ced, grouping, Segmentation(f))

\* ------------------------------------------------------------------ state
VARIABLES
    file,                 \* the .smr file: header and channels with their chains
    ced_units,            \* constructor argument
    try_signal_grouping,  \* constructor argument
    status,               \* "new", "parsed", or "error" when _parse_header raised
    error,                \* the exception _parse_header raised, "" if none
    nb_segment,           \* header["nb_segment"][0]
    all_data_blocks,      \* self._all_data_blocks
    by_seg_data_blocks,   \* self._by_seg_data_blocks
    sig_t_starts,         \* self._sig_t_starts
    sig_t_stops,          \* self._sig_t_stops
    seg_t_starts,         \* self._seg_t_starts
    seg_t_stops,          \* self._seg_t_stops
    internal_unit_ids,    \* self.internal_unit_ids
    signal_channels,      \* header["signal_channels"]
    signal_streams,       \* header["signal_streams"]
    sig_dtypes,           \* self._sig_dtypes
    event_channels,       \* header["event_channels"]
    call,                 \* the extraction call in progress, NoCall if none
    ret                   \* what that call returns

conf == <<file, ced_units, try_signal_grouping>>

parsed == <<nb_segment, all_data_blocks, by_seg_data_blocks, sig_t_starts,
            sig_t_stops, seg_t_starts, seg_t_stops, internal_unit_ids,
            signal_channels, signal_streams, sig_dtypes, event_channels>>

vars == <<conf, status, error, parsed, call, ret>>

NoCall == [op |-> "none"]

\* --------------------------------------------------- chunked signal reader
\* the ids of the channels of a stream, in table order
StreamChanIds(stream_index) ==
    LET stream_id == signal_streams[stream_index].id
        rows == SelectSeq(signal_channels, LAMBDA r : r.stream_id = stream_id)
    IN  [i \in DOMAIN rows |-> rows[i].id]

get_signal_size(seg_index, stream_index) ==
    SegSize(by_seg_data_blocks, StreamChanIds(stream_index)[1], seg_index)

get_signal_t_start(seg_index, stream_index) ==
    sig_t_starts[StreamChanIds(stream_index)[1]][seg_index] * TimeFactor(file)

\* np.searchsorted(a, v, side="right") by bisection over a[lo+1..hi]
RECURSIVE BisectRight(_, _, _, _)
BisectRight(a, v, lo, hi) ==
    IF lo >= hi THEN lo
    ELSE LET mid == (lo + hi) \div 2
         IN  IF v < a[mid + 1] THEN BisectRight(a, v, lo, mid)
             ELSE BisectRight(a, v, mid + 1, hi)

SearchSortedRight(a, v) == BisectRight(a, v, 0, Len(a))

\* data[:-border] without the test border > 0: nothing is left when border
\* is 0, the first -border samples when it is negative
TrimRightNoGuard(data, border) ==
    IF border > 0 THEN SubSeq(data, 1, Len(data) - border)
    ELSE SubSeq(data, 1, 0 - border)

\* data[:-border] when border > 0
TrimRight(data, border) ==
    IF border > 0 THEN SubSeq(data, 1, Len(data) - border) ELSE data

\* data[border:]
TrimLeft(data, border) == SubSeq(data, border + 1, Len(data))

\* what block bl of the segment contributes: blocks bl0..bl1 are visited
\* (the source's range(bl0, bl1) with both indexes one less)
ChunkOfBlock(chan_id, data_blocks, bl, bl0, bl1, i_start, i_stop) ==
    LET data == Payload(file, chan_id, data_blocks[bl].pos)
        d1   == IF bl = bl1
                THEN TrimRight(data, Len(data) - (i_stop - data_blocks[bl].cumsum))
                ELSE data
    IN  IF bl = bl0 THEN TrimLeft(d1, i_start - data_blocks[bl].cumsum) ELSE d1

\* one column of raw_signals: the chunks written one after the other into a
\* column of zeros
ChunkColumn(chan_id, seg_index, i_start, i_stop) ==
    LET data_blocks == by_seg_data_blocks[chan_id][seg_index]
        cumsum == [b \in DOMAIN data_blocks |-> data_blocks[b].cumsum]
        bl0  == SearchSortedRight(cumsum, i_start)
        bl1  == SearchSortedRight(cumsum, i_stop)
        flat == Flatten([k \in 1..(bl1 - bl0 + 1) |->
                            ChunkOfBlock(chan_id, data_blocks, bl0 + k - 1,
                                         bl0, bl1, i_start, i_stop)])
    IN  [r \in 1..(i_stop - i_start) |-> IF r <= Len(flat) THEN flat[r] ELSE 0]

\* _get_analogsignal_chunk: the rows of raw_signals.  channel_indexes is
\* [none |-> TRUE] for None, [none |-> FALSE, idx |-> the indexes] otherwise
get_analogsignal_chunk(seg_index, i_start, i_stop, stream_index, channel_indexes) ==
    LET i0   == IF i_start = NoneVal THEN 0 ELSE i_start
        i1   == IF i_stop = NoneVal THEN get_signal_size(seg_index, stream_index)
                ELSE i_stop
        all  == StreamChanIds(stream_index)
        chan_ids == IF channel_indexes.none THEN all
                    ELSE [k \in DOMAIN channel_indexes.idx |->
                             all[channel_indexes.idx[k]]]
        cols == [c \in DOMAIN chan_ids |-> ChunkColumn(chan_ids[c], seg_index, i0, i1)]
    IN  [r \in 1..(i1 - i0) |-> [c \in DOMAIN chan_ids |-> cols[c][r]]]

\* ---------------------------------------------------- spike/event extractor
\* keep = (ts >= lim0) & (ts <= lim1) [& ((marker & 255) == marker_filter)]
Keep(e, lim0, lim1, marker_filter) ==
    /\ e.tick >= lim0
    /\ e.tick <= lim1
    /\ marker_filter # NoneVal => Mask255(e.marker) = marker_filter

\* CountFrom without the early exit
RECURSIVE CountFromNoBreak(_, _, _, _, _, _)
CountFromNoBreak(chan_id, bl, lim0, lim1, marker_filter, nb) ==
    LET data_blocks == all_data_blocks[chan_id]
    IN  IF bl > Len(data_blocks) THEN nb
        ELSE LET raw_data == Payload(file, chan_id, data_blocks[bl].pos)
                 n == Cardinality({i \in DOMAIN raw_data :
                                      Keep(raw_data[i], lim0, lim1, marker_filter)})
             IN  CountFromNoBreak(chan_id, bl + 1, lim0, lim1, marker_filter, nb + n)

\* the loop of _count_in_time_slice from block bl on, nb counted so far
RECURSIVE CountFrom(_, _, _, _, _, _)
CountFrom(chan_id, bl, lim0, lim1, marker_filter, nb) ==
    LET data_blocks == all_data_blocks[chan_id]
    IN  IF bl > Len(data_blocks) THEN nb
        ELSE LET raw_data == Payload(file, chan_id, data_blocks[bl].pos)
                 n == Cardinality({i \in DOMAIN raw_data :
                                      Keep(raw_data[i], lim0, lim1, marker_filter)})
             IN  IF raw_data[Len(raw_data)].tick > lim1 THEN nb + n
                 ELSE CountFrom(chan_id, bl + 1, lim0, lim1, marker_filter, nb + n)

count_in_time_slice(seg_index, chan_id, lim0, lim1, marker_filter) ==
    CountFrom(chan_id, 1, lim0, lim1, marker_filter, 0)

\* KeptFrom leaving the loop before it keeps the entries of the block whose
\* last tick exceeds lim1
RECURSIVE KeptFromStopFirst(_, _, _, _, _)
KeptFromStopFirst(chan_id, bl, lim0, lim1, marker_filter) ==
    LET data_blocks == all_data_blocks[chan_id]
    IN  IF bl > Len(data_blocks) THEN <<>>
        ELSE LET raw_data == Payload(file, chan_id, data_blocks[bl].pos)
                 kept == SelectSeq(raw_data,
                                   LAMBDA e : Keep(e, lim0, lim1, marker_filter))
             IN  IF raw_data[Len(raw_data)].tick > lim1 THEN <<>>
                 ELSE kept \o KeptFromStopFirst(chan_id, bl + 1, lim0, lim1,
                                                marker_filter)

\* the loop of _get_internal_timestamp_ from block bl on: the kept entries
RECURSIVE KeptFrom(_, _, _, _, _)
KeptFrom(chan_id, bl, lim0, lim1, marker_filter) ==
    LET data_blocks == all_data_blocks[chan_id]
    IN  IF bl > Len(data_blocks) THEN <<>>
        ELSE LET raw_data == Payload(file, chan_id, data_blocks[bl].pos)
                 kept == SelectSeq(raw_data,
                                   LAMBDA e : Keep(e, lim0, lim1, marker_filter))
             IN  IF raw_data[Len(raw_data)].tick > lim1 THEN kept
                 ELSE kept \o KeptFrom(chan_id, bl + 1, lim0, lim1, marker_filter)

\* int(t / self._time_factor) for t >= 0
TimeToTick(t) == t \div TimeFactor(file)

Lim0(seg_index, t_start) ==
    IF t_start = NoneVal THEN seg_t_starts[seg_index] ELSE TimeToTick(t_start)

Lim1(seg_index, t_stop) ==
    IF t_stop = NoneVal THEN seg_t_stops[seg_index] ELSE TimeToTick(t_stop)

Field(e, other_field) ==
    CASE other_field = "waveform" -> e.waveform
      [] other_field = "marker" -> e.marker
      [] other_field = "label" -> e.label

\* timestamps and, for a field other than "none", the values of that field
get_internal_timestamp(seg_index, chan_id, t_start, t_stop, other_field, marker_filter) ==
    LET kept == KeptFrom(chan_id, 1, Lim0(seg_index, t_start),
                         Lim1(seg_index, t_stop), marker_filter)
    IN  [timestamps |-> [i \in DOMAIN kept |-> kept[i].tick],
         othervalues |-> IF other_field = "none" THEN <<>>
                         ELSE [i \in DOMAIN kept |-> Field(kept[i], other_field)]]

MarkerFilter(unit_index) ==
    IF ced_units THEN internal_unit_ids[unit_index][2] ELSE NoneVal

spike_count(seg_index, unit_index) ==
    count_in_time_slice(seg_index, internal_unit_ids[unit_index][1],
                        seg_t_starts[seg_index], seg_t_stops[seg_index],
                        MarkerFilter(unit_index))

get_spike_timestamps(seg_index, unit_index, t_start, t_stop) ==
    get_internal_timestamp(seg_index, internal_unit_ids[unit_index][1],
                           t_start, t_stop, "none",
                           MarkerFilter(unit_index)).timestamps

\* waveforms.reshape(timestamps.size, 1, -1): one row per spike
get_spike_raw_waveforms(seg_index, unit_index, t_start, t_stop) ==
    LET r == get_internal_timestamp(seg_index, internal_unit_ids[unit_index][1],
                                    t_start, t_stop, "waveform",
                                    MarkerFilter(unit_index))
    IN  [i \in DOMAIN r.timestamps |-> <<r.othervalues[i]>>]

event_count(seg_index, event_channel_index) ==
    count_in_time_slice(seg_index, event_channels[event_channel_index],
                        seg_t_starts[seg_index], seg_t_stops[seg_index], NoneVal)

\* (timestamps, durations, labels)
get_event_timestamps(seg_index, event_channel_index, t_start, t_stop) ==
    LET chan_id == event_channels[event_channel_index]
        kind == file.chans[chan_id].kind
        r == get_internal_timestamp(seg_index, chan_id, t_start, t_stop,
                                    IF kind = 5 THEN "marker"
                                    ELSE IF kind = 8 THEN "label" ELSE "none",
                                    NoneVal)
    IN  <<r.timestamps, NoneVal,
          IF kind \in {5, 8} THEN r.othervalues
          ELSE [i \in DOMAIN r.timestamps |-> ""]>>

\* ------------------------------------------------------------------- Init
Header(chans) == [us_per_time |-> UsPerTime, chans |-> chans]

KindDvd == AnalogKinds \X (1..MaxDvd)

\* the state before _parse_header
Unparsed ==
    /\ status = "new"
    /\ error = ""
    /\ nb_segment = 0
    /\ all_data_blocks = <<>>
    /\ by_seg_data_blocks = <<>>
    /\ sig_t_starts = <<>>
    /\ sig_t_stops = <<>>
    /\ seg_t_starts = <<>>
    /\ seg_t_stops = <<>>
    /\ internal_unit_ids = <<>>
    /\ signal_channels = <<>>
    /\ signal_streams = <<>>
    /\ sig_dtypes = <<>>
    /\ event_channels = <<>>
    /\ call = NoCall
    /\ ret = NoneVal

\* files of two analog channels with non-empty blocks, the chains one block
\* shorter than MaxBlocks
InitSig ==
    /\ \E a \in KindDvd, b \in KindDvd,
          n1 \in 0..(MaxBlocks - 1), n2 \in 0..(MaxBlocks - 1) :
          \E s1 \in Shapes(n1, 1..MaxItems), s2 \in Shapes(n2, 1..MaxItems) :
             file = Header(<<MkAnalogChan(1, a[1], a[2], s1),
                             MkAnalogChan(2, b[1], b[2], s2)>>)
    /\ ced_units = TRUE
    /\ try_signal_grouping \in BOOLEAN

\* files of one analog channel whose blocks may be empty
InitOne ==
    /\ \E a \in KindDvd, n \in 0..MaxBlocks :
          \E s1 \in Shapes(n, 0..MaxItems) :
             file = Header(<<MkAnalogChan(1, a[1], a[2], s1)>>)
    /\ ced_units = TRUE
    /\ try_signal_grouping \in BOOLEAN

\* what comes before the event channel of a file: nothing, an analog channel
\* without samples, one without a pause, one with a pause
Partners ==
    {<<>>,
     <<MkAnalogChan(1, 1, 1, <<<<0, 1>>>>)>>,
     <<MkAnalogChan(1, 1, 1, <<<<1, 1>>, <<1, 1>>>>)>>,
     <<MkAnalogChan(1, 1, 1, <<<<1, 1>>, <<1, MaxDelta>>>>)>>}

\* files with an event channel (kind 2), the ticks in any order
InitEvent ==
    /\ \E p \in Partners, ch \in EntryChains(MaxBlocks - 1, {0}) :
          file = Header(p \o <<MkEntryChan(2, ch)>>)
    /\ ced_units = TRUE
    /\ try_signal_grouping = TRUE

\* files of one waveform channel (kind 6), the ticks in any order
InitSpike ==
    /\ \E ch \in EntryChains(MaxBlocks - 1, {0, 1}) :
          file = Header(<<MkEntryChan(6, ch)>>)
    /\ ced_units \in BOOLEAN
    /\ try_signal_grouping = TRUE

\* files of one waveform channel (kind 6) of four entries with the marker
\* bytes 0, 1, 1, 2, alone or after an analog channel with a pause
InitUnits ==
    /\ \E p \in {<<>>, <<MkAnalogChan(1, 1, 1, <<<<1, 1>>, <<1, MaxDelta>>>>)>>},
          ch \in UnitChains :
          file = Header(p \o <<MkEntryChan(6, ch)>>)
    /\ ced_units \in BOOLEAN
    /\ try_signal_grouping = TRUE

\* nothing, or an event channel (kind 2) of one entry, up to one tick after
\* MaxTick
DriftEvents ==
    {<<>>} \cup {<<MkEntryChan(2, <<<<<<t, 0>>>>>>)>> : t \in 0..(MaxTick + 1)}

\* files of two analog channels of the same rate, the second one starting
\* after the first, and at most one event channel
InitDrift ==
    /\ \E d \in 1..MaxDvd, n1 \in 1..(MaxBlocks - 1), n2 \in 1..(MaxBlocks - 1) :
          \E s1 \in Shapes(n1, 1..MaxItems),
             s2 \in {z \in DriftShapes(n2, 1..MaxItems) : z[1][2] > 1},
             ev \in DriftEvents :
             file = Header(<<MkAnalogChan(1, 1, d, s1), MkAnalogChan(2, 1, d, s2)>>
                           \o ev)
    /\ ced_units = TRUE
    /\ try_signal_grouping = TRUE

\* the constructor: a file and the two flags
Init ==
    /\ InitSig \/ InitOne \/ InitEvent \/ InitSpike \/ InitUnits \/ InitDrift
    /\ Unparsed

\* ---------------------------------------------------------------- actions
\* what _parse_header leaves behind when its outcome is p
SetParsed(p) ==
    IF p.error # ""
    THEN /\ status' = "error"
         /\ error' = p.error
         /\ UNCHANGED parsed
    ELSE /\ status' = "parsed"
         /\ error' = ""
         /\ nb_segment' = p.nb_segment
         /\ all_data_blocks' = p.all_data_blocks
         /\ by_seg_data_blocks' = p.by_seg_data_blocks
         /\ sig_t_starts' = p.sig_t_starts
         /\ sig_t_stops' = p.sig_t_stops
         /\ seg_t_starts' = p.seg_t_starts
         /\ seg_t_stops' = p.seg_t_stops
         /\ internal_unit_ids' = p.internal_unit_ids
         /\ signal_channels' = p.signal_channels
         /\ signal_streams' = p.signal_streams
         /\ sig_dtypes' = p.sig_dtypes
         /\ event_channels' = p.event_channels

\* _parse_header: fills the tables, or raises and leaves the reader unusable
Call_parse_header ==
    /\ status = "new"
    /\ SetParsed(parse_header(file, ced_units, try_signal_grouping))
    /\ UNCHANGED <<conf, call, ret>>

Idle == status = "parsed" /\ call = NoCall

TimeArgs == {NoneVal} \cup (0..MaxTime)

Call_get_signal_size ==
    /\ Idle
    /\ \E seg_index \in 1..nb_segment, stream_index \in DOMAIN signal_streams :
          /\ call' = [op |-> "get_signal_size", seg_index |-> seg_index,
                      stream_index |-> stream_index]
          /\ ret' = get_signal_size(seg_index, stream_index)
    /\ UNCHANGED <<conf, status, error, parsed>>

\* the ranges 0 <= i_start <= i_stop <= signal size, and (None, None)
ChunkRanges(seg_index, stream_index) ==
    LET n == get_signal_size(seg_index, stream_index)
    IN  {r \in (0..n) \X (0..n) : r[1] <= r[2]} \cup {<<NoneVal, NoneVal>>}

\* None, or one channel of the stream
ChannelIndexes(stream_index) ==
    {[none |-> TRUE]} \cup
    {[none |-> FALSE, idx |-> <<k>>] : k \in DOMAIN StreamChanIds(stream_index)}

\* Call_get_analogsignal_chunk rebasing the cumsum column of the segment's
\* block lists on i_start
Call_get_analogsignal_chunk_rebasing ==
    /\ Idle
    /\ \E seg_index \in 1..nb_segment, stream_index \in DOMAIN signal_streams :
          \E r \in ChunkRanges(seg_index, stream_index),
             channel_indexes \in ChannelIndexes(stream_index) :
             /\ call' = [op |-> "get_analogsignal_chunk", seg_index |-> seg_index,
                         i_start |-> r[1], i_stop |-> r[2],
                         stream_index |-> stream_index,
                         channel_indexes |-> channel_indexes]
             /\ ret' = get_analogsignal_chunk(seg_index, r[1], r[2], stream_index,
                                              channel_indexes)
             /\ by_seg_data_blocks' =
                   [c \in DOMAIN by_seg_data_blocks |->
                       [s \in DOMAIN by_seg_data_blocks[c] |->
                           [b \in DOMAIN by_seg_data_blocks[c][s] |->
                               IF s = seg_index /\ r[1] # NoneVal
                               THEN [by_seg_data_blocks[c][s][b] EXCEPT
                                        !.cumsum = @ - r[1]]
                               ELSE by_seg_data_blocks[c][s][b]]]]
    /\ UNCHANGED <<conf, status, error, nb_segment, all_data_blocks, sig_t_starts,
                   sig_t_stops, seg_t_starts, seg_t_stops, internal_unit_ids,
                   signal_channels, signal_streams, sig_dtypes, event_channels>>

Call_get_analogsignal_chunk ==
    /\ Idle
    /\ \E seg_index \in 1..nb_segment, stream_index \in DOMAIN signal_streams :
          \E r \in ChunkRanges(seg_index, stream_index),
             channel_indexes \in ChannelIndexes(stream_index) :
             /\ call' = [op |-> "get_analogsignal_chunk", seg_index |-> seg_index,
                         i_start |-> r[1], i_stop |-> r[2],
                         stream_index |-> stream_index,
                         channel_indexes |-> channel_indexes]
             /\ ret' = get_analogsignal_chunk(seg_index, r[1], r[2], stream_index,
                                              channel_indexes)
    /\ UNCHANGED <<conf, status, error, parsed>>

Call_spike_count ==
    /\ Idle
    /\ \E seg_index \in 1..nb_segment, unit_index \in DOMAIN internal_unit_ids :
          /\ call' = [op |-> "spike_count", seg_index |-> seg_index,
                      unit_index |-> unit_index]
          /\ ret' = spike_count(seg_index, unit_index)
    /\ UNCHANGED <<conf, status, error, parsed>>

Call_get_spike_timestamps ==
    /\ Idle
    /\ \E seg_index \in 1..nb_segment, unit_index \in DOMAIN internal_unit_ids,
          t_start \in TimeArgs, t_stop \in TimeArgs :
          /\ call' = [op |-> "get_spike_timestamps", seg_index |-> seg_index,
                      unit_index |-> unit_index, t_start |-> t_start,
                      t_stop |-> t_stop]
          /\ ret' = get_spike_timestamps(seg_index, unit_index, t_start, t_stop)
    /\ UNCHANGED <<conf, status, error, parsed>>

Call_get_spike_raw_waveforms ==
    /\ Idle
    /\ \E seg_index \in 1..nb_segment, unit_index \in DOMAIN internal_unit_ids,
          t_start \in TimeArgs, t_stop \in TimeArgs :
          /\ call' = [op |-> "get_spike_raw_waveforms", seg_index |-> seg_index,
                      unit_index |-> unit_index, t_start |-> t_start,
                      t_stop |-> t_stop]
          /\ ret' = get_spike_raw_waveforms(seg_index, unit_index, t_start, t_stop)
    /\ UNCHANGED <<conf, status, error, parsed>>

Call_event_count ==
    /\ Idle
    /\ \E seg_index \in 1..nb_segment,
          event_channel_index \in DOMAIN event_channels :
          /\ call' = [op |-> "event_count", seg_index |-> seg_index,
                      event_channel_index |-> event_channel_index]
          /\ ret' = event_count(seg_index, event_channel_index)
    /\ UNCHANGED <<conf, status, error, parsed>>

Call_get_event_timestamps ==
    /\ Idle
    /\ \E seg_index \in 1..nb_segment,
          event_channel_index \in DOMAIN event_channels,
          t_start \in TimeArgs, t_stop \in TimeArgs :
          /\ call' = [op |-> "get_event_timestamps", seg_index |-> seg_index,
                      event_channel_index |-> event_channel_index,
                      t_start |-> t_start, t_stop |-> t_stop]
          /\ ret' = get_event_timestamps(seg_index, event_channel_index,
                                         t_start, t_stop)
    /\ UNCHANGED <<conf, status, error, parsed>>

\* the call returns to the caller, who may call again
Return ==
    /\ call # NoCall
    /\ call' = NoCall
    /\ ret' = NoneVal
    /\ UNCHANGED <<conf, status, error, parsed>>

Next ==
    \/ Call_parse_header
    \/ Call_get_signal_size
    \/ Call_get_analogsignal_chunk
    \/ Call_spike_count
    \/ Call_get_spike_timestamps
    \/ Call_get_spike_raw_waveforms
    \/ Call_event_count
    \/ Call_get_event_timestamps
    \/ Return

Spec == Init /\ [][Next]_vars

\* ------------------------------------------------------- claims: helpers
\* the number of gaps channel c of the file detects
NbGaps(c) ==
    Len(GapsBlockInd(BlockIndex(file.chans[c]), Interval(file, file.chans[c])))

QualifyingSet == {c \in DOMAIN file.chans : IsQualifying(file, c)}

\* the payloads of the blocks of segment s of channel c, one after the other
SegSamples(c, s) ==
    Flatten([b \in DOMAIN by_seg_data_blocks[c][s] |->
                Payload(file, c, by_seg_data_blocks[c][s][b].pos)])

\* the index of the stream a row of signal_channels belongs to
StreamIndexOf(row) ==
    CHOOSE k \in DOMAIN signal_streams : signal_streams[k].id = row.stream_id

\* C1: once _parse_header has run on a file in which two qualifying analog
\* channels detect different numbers of gaps, it has raised the
\* NeoReadWriteError about different pauses (and produced no segment table).
C1_PauseMismatchRejected ==
    (/\ status # "new"
     /\ \E c1 \in QualifyingSet, c2 \in QualifyingSet : NbGaps(c1) # NbGaps(c2))
    => (/\ status = "error"
        /\ error = "NeoReadWriteError: different pauses"
        /\ seg_t_starts = <<>>)

\* C2: whenever grouped parsing succeeds, the channels of one stream have
\* equal sample counts in every segment.
C2_GroupedSizesEqual ==
    (status = "parsed" /\ try_signal_grouping)
    => \A i \in DOMAIN signal_channels, j \in DOMAIN signal_channels :
          signal_channels[i].stream_id = signal_channels[j].stream_id
          => \A s \in 1..nb_segment :
                SegSize(by_seg_data_blocks, signal_channels[i].id, s)
                = SegSize(by_seg_data_blocks, signal_channels[j].id, s)

\* the arguments of the chunk call in progress, defaults resolved
ChunkStart == IF call.i_start = NoneVal THEN 0 ELSE call.i_start
ChunkStop ==
    IF call.i_stop = NoneVal THEN get_signal_size(call.seg_index, call.stream_index)
    ELSE call.i_stop
ChunkChans ==
    LET all == StreamChanIds(call.stream_index)
    IN  IF call.channel_indexes.none THEN all
        ELSE [k \in DOMAIN call.channel_indexes.idx |->
                 all[call.channel_indexes.idx[k]]]

\* C3: a chunk read returns i_stop - i_start rows of one column per selected
\* channel, and row r of column c is sample i_start + r of the channel's
\* samples of the segment.
C3_ChunkIsSubRange ==
    call.op = "get_analogsignal_chunk"
    => /\ Len(ret) = ChunkStop - ChunkStart
       /\ \A r \in DOMAIN ret :
             /\ Len(ret[r]) = Len(ChunkChans)
             /\ \A c \in DOMAIN ChunkChans :
                   LET samples == SegSamples(ChunkChans[c], call.seg_index)
                   IN  /\ ChunkStart + r <= Len(samples)
                       /\ ret[r][c] = samples[ChunkStart + r]

\* the streams whose channels have equal sample counts in every segment
EqualSizes(stream_index) ==
    \A c \in Range(StreamChanIds(stream_index)), s \in 1..nb_segment :
        SegSize(by_seg_data_blocks, c, s) = get_signal_size(s, stream_index)

\* C3 on the streams the size check is meant to let through
C3_ChunkIsSubRangeEqualSizes ==
    (call.op = "get_analogsignal_chunk" /\ EqualSizes(call.stream_index))
    => C3_ChunkIsSubRange

\* C4: a chunk read of [0, n) is the read of [0, k) followed by the read of
\* [k, n), for every 0 <= k <= n.
C4_RangeAdditive ==
    (call.op = "get_analogsignal_chunk" /\ ChunkStart = 0)
    => \A k \in 0..ChunkStop :
          ret = get_analogsignal_chunk(call.seg_index, 0, k, call.stream_index,
                                       call.channel_indexes)
                \o get_analogsignal_chunk(call.seg_index, k, ChunkStop,
                                          call.stream_index, call.channel_indexes)

\* a read from 0 that crosses a block boundary of one of its channels
C4_Witness ==
    /\ call.op = "get_analogsignal_chunk"
    /\ ChunkStart = 0
    /\ \E c \in Range(ChunkChans) :
          \E b \in DOMAIN by_seg_data_blocks[c][call.seg_index] :
             LET cs == by_seg_data_blocks[c][call.seg_index][b].cumsum
             IN  0 < cs /\ cs < ChunkStop
    /\ \A r \in DOMAIN ret : \A c \in DOMAIN ret[r] : ret[r][c] # 0

\* the channels that hold timestamped entries, and the marker filters that
\* apply to them (channels of kind 2, 3, 4 have no marker)
EntryChans == {c \in DOMAIN file.chans : file.chans[c].kind \in EventKinds \cup SpikeKinds}
Filters(c) ==
    IF file.chans[c].kind \in {2, 3, 4} THEN {NoneVal}
    ELSE {NoneVal} \cup (0..MaxTick)

\* C5: the count of _count_in_time_slice is the length of the timestamps of
\* _get_internal_timestamp_ for the same channel, tick window and filter;
\* _spike_count and _event_count are the lengths of the timestamps read with
\* the default bounds.
C5_CountIsLength ==
    /\ status = "parsed"
       => \A c \in EntryChans, lim0 \in 0..(MaxTick + 1), lim1 \in 0..(MaxTick + 1) :
             \A mf \in Filters(c) :
                count_in_time_slice(1, c, lim0, lim1, mf)
                = Len(KeptFrom(c, 1, lim0, lim1, mf))
    /\ call.op = "spike_count"
       => ret = Len(get_spike_timestamps(call.seg_index, call.unit_index,
                                         NoneVal, NoneVal))
    /\ call.op = "event_count"
       => ret = Len(get_event_timestamps(call.seg_index, call.event_channel_index,
                                         NoneVal, NoneVal)[1])

\* a count of a unit over a chain of two blocks, the scan stopped early
C5_Witness ==
    /\ call.op = "spike_count"
    /\ ced_units
    /\ ret >= 1
    /\ LET c == internal_unit_ids[call.unit_index][1]
       IN  /\ Len(all_data_blocks[c]) = 2
           /\ all_data_blocks[c][1].end_time > seg_t_stops[call.seg_index]

\* C6: the per-segment block lists of a channel are nb_segment non-empty
\* consecutive runs of its block index which, one after the other, are the
\* whole chain in its order.
C6_SegmentsPartitionChain ==
    status = "parsed"
    => \A c \in DOMAIN by_seg_data_blocks :
          by_seg_data_blocks[c] # <<>>
          => /\ Len(by_seg_data_blocks[c]) = nb_segment
             /\ \A s \in 1..nb_segment : by_seg_data_blocks[c][s] # <<>>
             /\ LET all == Flatten(by_seg_data_blocks[c])
                IN  /\ [b \in DOMAIN all |-> all[b].pos]
                       = [b \in DOMAIN file.chans[c].blocks |-> b]
                    /\ [b \in DOMAIN all |-> [all[b] EXCEPT !.cumsum = 0]]
                       = BlockIndex(file.chans[c])

\* two channels split into two segments each
C6_Witness ==
    /\ status = "parsed"
    /\ nb_segment = 2
    /\ Cardinality({c \in DOMAIN by_seg_data_blocks : by_seg_data_blocks[c] # <<>>}) = 2

\* C7: the item counts of a listed channel's chain add up to the sum over the
\* segments of the signal size of the channel's stream.
C7_ChainSizeIsSignalSize ==
    status = "parsed"
    => \A i \in DOMAIN signal_channels :
          SumSeq(Sizes(all_data_blocks[signal_channels[i].id]))
          = SumSeq([s \in 1..nb_segment |->
                       get_signal_size(s, StreamIndexOf(signal_channels[i]))])

\* C7 on the streams the size check is meant to let through
C7_ChainSizeIsSignalSizeEqualSizes ==
    status = "parsed"
    => \A i \in DOMAIN signal_channels :
          EqualSizes(StreamIndexOf(signal_channels[i]))
          => SumSeq(Sizes(all_data_blocks[signal_channels[i].id]))
             = SumSeq([s \in 1..nb_segment |->
                          get_signal_size(s, StreamIndexOf(signal_channels[i]))])

\* the analog channels of the file that have one block each, no pause, the
\* same characteristics and the same, non-zero, item count
TwoAlikeChannels ==
    /\ Len(file.chans) = 2
    /\ \A c \in 1..2 :
          /\ file.chans[c].kind \in AnalogKinds
          /\ Len(file.chans[c].blocks) = 1
          /\ file.chans[c].blocks[1].items > 0
    /\ Characteristics(SignalChannelRow(file, 1))
       = Characteristics(SignalChannelRow(file, 2))
    /\ file.chans[1].blocks[1].items = file.chans[2].blocks[1].items

\* C8: after a grouped parse every listed channel carries the id of one
\* stream, every stream has a channel, and two listed channels carry the same
\* stream id exactly when their (sampling_rate, dtype, units, gain, offset)
\* are equal; two alike channels of one block each give one segment and one
\* stream of both channels whose signal size is the block item count.
C8_StreamsAreBuckets ==
    (status = "parsed" /\ try_signal_grouping)
    => /\ \A i \in DOMAIN signal_channels :
             Cardinality({k \in DOMAIN signal_streams :
                             signal_streams[k].id = signal_channels[i].stream_id}) = 1
       /\ \A k \in DOMAIN signal_streams : Len(StreamChanIds(k)) >= 1
       /\ \A i \in DOMAIN signal_channels, j \in DOMAIN signal_channels :
             (signal_channels[i].stream_id = signal_channels[j].stream_id)
             <=> (/\ signal_channels[i].sample_interval = signal_channels[j].sample_interval
                  /\ signal_channels[i].dtype = signal_channels[j].dtype
                  /\ signal_channels[i].units = signal_channels[j].units
                  /\ signal_channels[i].gain = signal_channels[j].gain
                  /\ signal_channels[i].offset = signal_channels[j].offset)
       /\ TwoAlikeChannels
          => /\ nb_segment = 1
             /\ Len(signal_streams) = 1
             /\ StreamChanIds(1) = <<1, 2>>
             /\ get_signal_size(1, 1) = file.chans[1].blocks[1].items

\* a grouped parse of two channels in two streams, and one of two alike
\* channels in one stream
C8_Witness ==
    /\ status = "parsed"
    /\ try_signal_grouping
    /\ Len(signal_channels) = 2
    /\ \/ Len(signal_streams) = 2 /\ signal_channels[1].dtype = signal_channels[2].dtype
       \/ TwoAlikeChannels /\ call.op = "get_signal_size"

\* C9: an extraction call, and its return, leave the file, the flags and
\* every parsed structure as they are.
C9_ExtractionReadsOnly ==
    [][status = "parsed" => (status' = "parsed" /\ parsed' = parsed /\ conf' = conf)]_vars

\* a chunk of two rows or more read from a file parsed into two segments
C9_Witness ==
    /\ status = "parsed"
    /\ call.op = "get_analogsignal_chunk"
    /\ Len(ret) >= 2
    /\ nb_segment = 2

\* the end ticks of the last blocks of the channels that have blocks
LastEndTicks ==
    {file.chans[c].blocks[Len(file.chans[c].blocks)].end_time :
        c \in {d \in DOMAIN file.chans : Len(file.chans[d].blocks) > 0}}

\* the end ticks of all blocks of all channels
AllEndTicks ==
    UNION {{file.chans[c].blocks[b].end_time : b \in DOMAIN file.chans[c].blocks} :
           c \in DOMAIN file.chans}

\* C10 as claimed: without a qualifying analog channel there is one segment
\* from tick 0 to the maximum end tick over all blocks of all channels.
C10_StopIsMaxOverAllBlocks ==
    (status = "parsed" /\ QualifyingSet = {} /\ AllEndTicks # {})
    => /\ nb_segment = 1
       /\ seg_t_starts = <<0>>
       /\ seg_t_stops = <<Max(AllEndTicks)>>

\* C10 amended: without a qualifying analog channel there is one segment
\* from tick 0 to the maximum, over the channels that have blocks, of the end
\* tick of the channel's last block in chain order (None when no channel has
\* a block); that is the maximum over all blocks when the end ticks of every
\* chain are non-decreasing.
C10_StopIsMaxOfLastBlocks ==
    (status = "parsed" /\ QualifyingSet = {})
    => /\ nb_segment = 1
       /\ seg_t_starts = <<0>>
       /\ seg_t_stops = <<IF LastEndTicks = {} THEN NoneVal ELSE Max(LastEndTicks)>>
       /\ (\A c \in DOMAIN file.chans :
              \A b \in 1..(Len(file.chans[c].blocks) - 1) :
                 file.chans[c].blocks[b].end_time <= file.chans[c].blocks[b + 1].end_time)
          => (AllEndTicks # {} => seg_t_stops = <<Max(AllEndTicks)>>)

\* an analog channel without samples before an event channel of two blocks
\* that ends later
C10_Witness ==
    /\ status = "parsed"
    /\ QualifyingSet = {}
    /\ Len(file.chans) = 2
    /\ file.chans[1].kind \in AnalogKinds
    /\ Len(file.chans[2].blocks) = 2
    /\ seg_t_stops[1] > file.chans[1].blocks[1].end_time

\* the waveform channels of the file
WaveformChans == {c \in DOMAIN file.chans : file.chans[c].kind \in SpikeKinds}

\* the entries of channel c, over all blocks in chain order
ChainEntries(c) ==
    Flatten([b \in DOMAIN file.chans[c].blocks |-> file.chans[c].blocks[b].data])

\* the ticks of channel c never decrease along its chain
Chronological(c) ==
    \A i \in 1..(Len(ChainEntries(c)) - 1) :
        ChainEntries(c)[i].tick <= ChainEntries(c)[i + 1].tick

\* the unit ids created for channel c, in unit index order
UnitsOf(c) ==
    LET u == SelectSeq(internal_unit_ids, LAMBDA x : x[1] = c)
    IN  [k \in DOMAIN u |-> u[k][2]]

\* the low bytes of the markers of channel c
MarkerBytes(c) ==
    {ChainEntries(c)[i].marker % 256 : i \in DOMAIN ChainEntries(c)}

\* the number of entries of channel c in the tick range of segment s that
\* belong to unit u
InSegmentCount(c, s, u) ==
    Cardinality({i \in DOMAIN ChainEntries(c) :
        /\ seg_t_starts[s] <= ChainEntries(c)[i].tick
        /\ ChainEntries(c)[i].tick <= seg_t_stops[s]
        /\ u # AllUnit => ChainEntries(c)[i].marker % 256 = u})

\* the units of every waveform channel: one per distinct marker byte with
\* ced_units, the single unit "all" without; marker bytes 0, 1, 1, 2 give the
\* units 0, 1, 2
UnitsAreMarkerBytes ==
    status = "parsed"
    => \A c \in WaveformChans :
          /\ ced_units
             => /\ Range(UnitsOf(c)) = MarkerBytes(c)
                /\ Len(UnitsOf(c)) = Cardinality(MarkerBytes(c))
                /\ [i \in DOMAIN ChainEntries(c) |-> ChainEntries(c)[i].marker % 256]
                   = <<0, 1, 1, 2>> => UnitsOf(c) = <<0, 1, 2>>
          /\ ~ced_units => UnitsOf(c) = <<AllUnit>>

\* C11 as claimed: the units of a waveform channel are its distinct marker
\* bytes (the one unit "all" without ced_units), and _spike_count of a unit in
\* a segment is the number of the unit's entries whose tick lies in the
\* segment's tick range.
C11_CountIsInSegmentCount ==
    /\ UnitsAreMarkerBytes
    /\ call.op = "spike_count"
       => ret = InSegmentCount(internal_unit_ids[call.unit_index][1], call.seg_index,
                               internal_unit_ids[call.unit_index][2])

\* C11 amended: the units are as claimed; _spike_count is the number of the
\* unit's entries in the segment's tick range when the ticks of the channel
\* never decrease along its chain.
C11_CountIsInSegmentCountChronological ==
    /\ UnitsAreMarkerBytes
    /\ (call.op = "spike_count" /\ Chronological(internal_unit_ids[call.unit_index][1]))
       => ret = InSegmentCount(internal_unit_ids[call.unit_index][1], call.seg_index,
                               internal_unit_ids[call.unit_index][2])

\* the count 2 of unit 1 of a channel with the marker bytes 0, 1, 1, 2, one of
\* them the low byte of a larger word, in a segment that leaves an entry out
C11_Witness ==
    /\ call.op = "spike_count"
    /\ ced_units
    /\ internal_unit_ids[call.unit_index][2] = 1
    /\ ret = 2
    /\ LET c == internal_unit_ids[call.unit_index][1]
       IN  /\ UnitsOf(c) = <<0, 1, 2>>
           /\ \E i \in DOMAIN ChainEntries(c) : ChainEntries(c)[i].marker >= 256
           /\ \E i \in DOMAIN ChainEntries(c) :
                 ChainEntries(c)[i].tick > seg_t_stops[call.seg_index]

\* C12: without grouping the size check error is never raised, the parse
\* succeeds whenever the qualifying channels agree on the number of pauses,
\* and a successful parse has as many streams as listed analog channels,
\* every stream holding exactly one channel and every channel the id of
\* exactly one stream.
C12_UngroupedOneStreamPerChannel ==
    /\ (status # "new" /\ ~try_signal_grouping)
       => /\ error # "NeoReadWriteError: use try_signal_grouping=False"
          /\ (\A c1 \in QualifyingSet, c2 \in QualifyingSet : NbGaps(c1) = NbGaps(c2))
             => status = "parsed"
    /\ (status = "parsed" /\ ~try_signal_grouping)
       => /\ Len(signal_channels) = Cardinality(QualifyingSet)
          /\ Len(signal_streams) = Len(signal_channels)
          /\ \A k \in DOMAIN signal_streams : Len(StreamChanIds(k)) = 1
          /\ \A i \in DOMAIN signal_channels :
                Cardinality({k \in DOMAIN signal_streams :
                                signal_streams[k].id = signal_channels[i].stream_id}) = 1

\* an ungrouped parse of two channels with equal characteristics and
\* different sample counts, the size of the second stream read
C12_Witness ==
    /\ status = "parsed"
    /\ ~try_signal_grouping
    /\ Len(signal_channels) = 2
    /\ Characteristics(signal_channels[1]) = Characteristics(signal_channels[2])
    /\ SegSize(by_seg_data_blocks, 1, 1) # SegSize(by_seg_data_blocks, 2, 1)
    /\ call.op = "get_signal_size"
    /\ call.stream_index = 2
    /\ ret = SegSize(by_seg_data_blocks, 2, 1)

\* the places k of the chain of channel c where the next block starts more
\* than the channel's sample interval in ticks (l_chan_dvd) after block k ends
FlaggedGaps(c) ==
    {k \in 1..(Len(file.chans[c].blocks) - 1) :
        file.chans[c].blocks[k + 1].start_time - file.chans[c].blocks[k].end_time
        > file.chans[c].l_chan_dvd}

\* the places k of the chain of channel c where a segment of the parse ends
\* and another one starts
SegmentEnds(c) ==
    {SumSeq([t \in 1..s |-> Len(by_seg_data_blocks[c][t])]) :
        s \in 1..(Len(by_seg_data_blocks[c]) - 1)}

\* C13: the gaps the parse detects in a qualifying channel are the places
\* where the distance from the end of a block to the start of the next is
\* strictly greater than the sample interval in ticks, and after a successful
\* parse nb_segment is the number of those places plus one, for every
\* qualifying channel, whose chain is cut exactly there.
C13_SegmentsAreGapsPlusOne ==
    /\ status # "new"
       => \A c \in QualifyingSet :
             Range(AllGapsBlockInd(file)[c]) = FlaggedGaps(c)
    /\ status = "parsed"
       => \A c \in QualifyingSet :
             /\ nb_segment = Cardinality(FlaggedGaps(c)) + 1
             /\ SegmentEnds(c) = FlaggedGaps(c)

\* C13 for the files whose qualifying channels agree on the number of gaps
C13_SegmentsAreGapsPlusOneSameGaps ==
    (\A c1 \in QualifyingSet, c2 \in QualifyingSet :
        Cardinality(FlaggedGaps(c1)) = Cardinality(FlaggedGaps(c2)))
    => C13_SegmentsAreGapsPlusOne

\* a successful parse of a channel with a distance equal to the sample
\* interval, which is no gap, and a greater one, which is
C13_SeenStrictness ==
    /\ status = "parsed"
    /\ \E c \in QualifyingSet :
          /\ nb_segment = 2
          /\ \E k \in 1..(Len(file.chans[c].blocks) - 1) :
                file.chans[c].blocks[k + 1].start_time - file.chans[c].blocks[k].end_time
                = file.chans[c].l_chan_dvd

\* the entries of a sequence with lim0 <= tick <= lim1 and, under a filter,
\* the marker byte mf, in their order
InWindow(entries, lim0, lim1, mf) ==
    SelectSeq(entries, LAMBDA e : /\ lim0 <= e.tick
                                  /\ e.tick <= lim1
                                  /\ mf # NoneVal => e.marker % 256 = mf)

\* the number of blocks a scan of channel c up to lim1 visits: up to and
\* with the first block whose last tick exceeds lim1
Visited(c, lim1) ==
    LET bl == file.chans[c].blocks
        over == {b \in DOMAIN bl : bl[b].data[Len(bl[b].data)].tick > lim1}
    IN  IF over = {} THEN Len(bl) ELSE Min(over)

\* the entries of the first n blocks of channel c
PrefixEntries(c, n) ==
    Flatten([b \in 1..n |-> file.chans[c].blocks[b].data])

\* the tick window of the timestamp call in progress
CallLim0 ==
    IF call.t_start = NoneVal THEN seg_t_starts[call.seg_index]
    ELSE call.t_start \div UsPerTime
CallLim1 ==
    IF call.t_stop = NoneVal THEN seg_t_stops[call.seg_index]
    ELSE call.t_stop \div UsPerTime

\* C14: a scan keeps, in chain order, the entries in the window of the blocks
\* up to and with the first block whose last tick exceeds lim1; when the ticks
\* never decrease along the chain these are all the entries of the chain in
\* the window (both bounds inclusive, the marker filter applied), for the
\* timestamps and for the count.
C14_EarlyStopDropsNothing ==
    /\ (status = "parsed" /\ call = NoCall)
       => \A c \in EntryChans, lim0 \in 0..(MaxTick + 1), lim1 \in 0..(MaxTick + 1) :
             \A mf \in Filters(c) :
                /\ KeptFrom(c, 1, lim0, lim1, mf)
                   = InWindow(PrefixEntries(c, Visited(c, lim1)), lim0, lim1, mf)
                /\ Chronological(c)
                   => /\ KeptFrom(c, 1, lim0, lim1, mf)
                         = InWindow(ChainEntries(c), lim0, lim1, mf)
                      /\ count_in_time_slice(1, c, lim0, lim1, mf)
                         = Len(InWindow(ChainEntries(c), lim0, lim1, mf))
    /\ (/\ call.op = "get_event_timestamps"
        /\ Chronological(event_channels[call.event_channel_index]))
       => ret[1] = [i \in DOMAIN InWindow(ChainEntries(event_channels[call.event_channel_index]),
                                          CallLim0, CallLim1, NoneVal) |->
                       InWindow(ChainEntries(event_channels[call.event_channel_index]),
                                CallLim0, CallLim1, NoneVal)[i].tick]
    /\ (/\ call.op = "get_spike_timestamps"
        /\ Chronological(internal_unit_ids[call.unit_index][1]))
       => Len(ret) = Len(InWindow(ChainEntries(internal_unit_ids[call.unit_index][1]),
                                  CallLim0, CallLim1,
                                  IF ced_units THEN internal_unit_ids[call.unit_index][2]
                                  ELSE NoneVal))

\* timestamps read from a chain in tick order, the scan stopped at a block
\* that holds an entry of the window and is not the last one
C14_Witness ==
    /\ call.op = "get_event_timestamps"
    /\ Chronological(event_channels[call.event_channel_index])
    /\ Visited(event_channels[call.event_channel_index], CallLim1)
       < Len(file.chans[event_channels[call.event_channel_index]].blocks)
    /\ Len(ret[1]) >= 1
    /\ ret[1][Len(ret[1])]
       = file.chans[event_channels[call.event_channel_index]].blocks[
            Visited(event_channels[call.event_channel_index], CallLim1)].data[1].tick

\* the block of the file behind block k of segment s of channel c
SegBlock(c, s, k) == file.chans[c].blocks[by_seg_data_blocks[c][s][k].pos]

\* the start tick of the first and the end tick of the last block of
\* segment s of channel c
FirstStart(c, s) == SegBlock(c, s, 1).start_time
LastEnd(c, s) == SegBlock(c, s, Len(by_seg_data_blocks[c][s])).end_time

\* C15: with a qualifying channel, the start tick of every segment is the
\* minimum over the qualifying channels of the start tick of the channel's
\* first block in the segment, its stop tick the maximum of the end tick of
\* the channel's last block in the segment, and every block of the segment
\* of every qualifying channel lies within the two.
C15_GlobalBoundsAreMinMax ==
    (status = "parsed" /\ QualifyingSet # {})
    => /\ Len(seg_t_starts) = nb_segment
       /\ Len(seg_t_stops) = nb_segment
       /\ \A s \in 1..nb_segment :
             /\ seg_t_starts[s] = Min({FirstStart(c, s) : c \in QualifyingSet})
             /\ seg_t_stops[s] = Max({LastEnd(c, s) : c \in QualifyingSet})
             /\ \A c \in QualifyingSet :
                   \A k \in DOMAIN by_seg_data_blocks[c][s] :
                      /\ seg_t_starts[s] <= SegBlock(c, s, k).start_time
                      /\ SegBlock(c, s, k).end_time <= seg_t_stops[s]

\* two segments of two channels, the second channel starting later in one
\* segment and ending later in one
C15_Witness ==
    /\ status = "parsed"
    /\ QualifyingSet = {1, 2}
    /\ nb_segment = 2
    /\ \E s \in 1..2 : /\ FirstStart(2, s) > FirstStart(1, s)
                       /\ seg_t_starts[s] = FirstStart(1, s)
    /\ \E s \in 1..2 : /\ LastEnd(2, s) > LastEnd(1, s)
                       /\ seg_t_stops[s] = LastEnd(2, s)

\* C16: after a successful parse the cumsum column of every per-segment block
\* list is 0 at the segment's first block and, at every later block, the sum
\* of the item counts of the blocks of the segment before it.
C16_CumsumIsSegmentRelative ==
    status = "parsed"
    => \A c \in DOMAIN by_seg_data_blocks :
          \A s \in DOMAIN by_seg_data_blocks[c] :
             \A k \in DOMAIN by_seg_data_blocks[c][s] :
                /\ by_seg_data_blocks[c][s][k].cumsum
                   = SumSeq([j \in 1..(k - 1) |-> SegBlock(c, s, j).items])
                /\ k = 1 => by_seg_data_blocks[c][s][k].cumsum = 0
                /\ k > 1 => by_seg_data_blocks[c][s][k].cumsum
                            >= by_seg_data_blocks[c][s][k - 1].cumsum

\* a second segment of two blocks after a first segment with samples
C16_Witness ==
    /\ status = "parsed"
    /\ nb_segment = 2
    /\ \E c \in QualifyingSet :
          /\ SegSize(by_seg_data_blocks, c, 1) > 0
          /\ Len(by_seg_data_blocks[c][2]) = 2
          /\ by_seg_data_blocks[c][2][1].cumsum = 0
          /\ by_seg_data_blocks[c][2][2].cumsum > 0

\* the ticks _get_event_timestamps returns for segment s of event channel ei
\* with the default time bounds
EventTicks(s, ei) == Range(get_event_timestamps(s, ei, NoneVal, NoneVal)[1])

\* the same for _get_spike_timestamps of unit ui
SpikeTicks(s, ui) == Range(get_spike_timestamps(s, ui, NoneVal, NoneVal))

\* C17: the tick ranges of the segments are disjoint and in order, the stop
\* tick of a segment before the start tick of the next, and with the default
\* time bounds no entry of an event or waveform channel is returned or
\* counted for two segments.
C17_SegmentRangesDisjoint ==
    /\ status = "parsed"
       => \A s \in 1..(nb_segment - 1) : seg_t_stops[s] < seg_t_starts[s + 1]
    /\ (status = "parsed" /\ call = NoCall)
       => \A s1 \in 1..nb_segment, s2 \in 1..nb_segment :
             s1 < s2
             => /\ \A ei \in DOMAIN event_channels :
                      /\ EventTicks(s1, ei) \cap EventTicks(s2, ei) = {}
                      /\ event_count(s1, ei) + event_count(s2, ei)
                         <= Len(ChainEntries(event_channels[ei]))
                /\ \A ui \in DOMAIN internal_unit_ids :
                      /\ SpikeTicks(s1, ui) \cap SpikeTicks(s2, ui) = {}
                      /\ spike_count(s1, ui) + spike_count(s2, ui)
                         <= Len(ChainEntries(internal_unit_ids[ui][1]))
    /\ call.op = "event_count"
       => \A s2 \in 1..nb_segment :
             s2 # call.seg_index
             => ret + event_count(s2, call.event_channel_index)
                <= Len(ChainEntries(event_channels[call.event_channel_index]))

\* the ranges of the segments of one channel are disjoint and in order
C17_ChannelRangesDisjoint ==
    status = "parsed"
    => \A c \in QualifyingSet :
          \A s \in 1..(nb_segment - 1) : LastEnd(c, s) < FirstStart(c, s + 1)

\* an event counted for the two segments of a file
C17_CountedTwice ==
    /\ call.op = "event_count"
    /\ nb_segment = 2
    /\ Len(ChainEntries(event_channels[call.event_channel_index])) = 1
    /\ event_count(1, call.event_channel_index) = 1
    /\ event_count(2, call.event_channel_index) = 1
====
